---- MODULE Spec2Model ----
(***************************************************************************)
(* A model of the texlab (LaTeX) language-server binding of solidlsp:      *)
(*   - Texlab.DependencyProvider._get_or_install_core_dependency           *)
(*   - Texlab._start_server (handler registration, handshake, validation)  *)
(*   - Texlab.is_ignored_dirname                                           *)
(* together with the parts of the generic engine the binding drives (the   *)
(* dispatcher's reader task, the session state, the document-symbol        *)
(* normalisation), which are modelled from the specification because       *)
(* their code is not part of the excerpt.                                  *)
(***************************************************************************)
EXTENDS Integers, Sequences, FiniteSets, TLC

VARIABLES
    platform,       \* host platform identifier (OS + CPU architecture)
    debug,          \* Python's __debug__: FALSE when run with -O (asserts stripped)
    fsExists,       \* os.path.exists(texlab_executable_path)
    fsMode,         \* permission bits of the file at texlab_executable_path
    dpc,            \* position inside _get_or_install_core_dependency
    dependency,     \* local `dependency` of the current call
    depTrace,       \* file-system/installer operations of the current call, in order
    ret,            \* value returned by the last call (NoPath if none)
    depError,       \* exception raised by the last call (NoError if none)
    installs,       \* number of deps.install invocations so far
    calls,          \* number of calls of _get_or_install_core_dependency so far
    state,          \* SessionState
    pc,             \* index of the next statement of _start_server (0: not called)
    waiting,        \* a synchronous request is suspended awaiting its response
    error,          \* exception raised by _start_server (NoError if none)
    reqHandlers,    \* HandlerRegistry, request kind: set of method names
    notifHandlers,  \* HandlerRegistry, notification kind: set of method names
    procStarted,    \* the server subprocess is running
    outbox,         \* every message the client wrote to the subprocess, in order
    inbox,          \* messages the subprocess wrote that the reader has not consumed
    initResponse,   \* init_response (NoResponse before it arrives)
    srvSent,        \* number of unsolicited messages the subprocess has sent
    symRequests,    \* number of request_document_symbols calls so far
    symPending,     \* a request_document_symbols call awaits its response
    symResult,      \* result of get_all_symbols_and_roots (NoResult before)
    baseIgnored,    \* directory names the base class's is_ignored_dirname accepts
    dirname,        \* argument of the last is_ignored_dirname call
    ignored         \* its return value

depVars == <<platform, debug, fsExists, fsMode, dpc, dependency, depTrace, ret, depError, installs, calls>>
sessVars == <<state, pc, waiting, error, reqHandlers, notifHandlers, procStarted, outbox, inbox,
              initResponse, srvSent, symRequests, symPending, symResult>>
ignVars == <<baseIgnored, dirname, ignored>>
vars == <<depVars, sessVars, ignVars>>

(***************************************************************************)
(* Bounds of the model.                                                    *)
(***************************************************************************)
MaxCalls == 2
MaxServerMsgs == 2
MaxSymbols == 3
MaxSymbolRequests == 1

Last(q) == q[Len(q)]
Occurs(x, q) == \E i \in 1..Len(q) : q[i] = x

NoPath == <<>>
NoError == "NoError"
NoDependency == [id |-> "", url |-> "", platform_id |-> "", archive_type |-> "", binary_name |-> ""]
NoResponse == [received |-> FALSE, hasCapabilities |-> FALSE, capabilities |-> {}]
NoResult == [done |-> FALSE, all |-> <<>>, roots |-> <<>>]
NoDirname == "NoDirname"

(***************************************************************************)
(* Dependency resolution.                                                  *)
(***************************************************************************)
texlab_releases == "https://github.com/latex-lsp/texlab/releases/download/v5.25.1"

\* a copied entry keeps the platform_id of the entry it was copied from
runtime_dependencies_DuplicateId ==
    << [id |-> "texlab", url |-> texlab_releases \o "/texlab-x86_64-linux.tar.gz",
        platform_id |-> "linux-x64", archive_type |-> "gztar", binary_name |-> "texlab"],
       [id |-> "texlab", url |-> texlab_releases \o "/texlab-aarch64-linux.tar.gz",
        platform_id |-> "linux-x64", archive_type |-> "gztar", binary_name |-> "texlab"],
       [id |-> "texlab", url |-> texlab_releases \o "/texlab-x86_64-macos.tar.gz",
        platform_id |-> "osx-x64", archive_type |-> "gztar", binary_name |-> "texlab"],
       [id |-> "texlab", url |-> texlab_releases \o "/texlab-aarch64-macos.tar.gz",
        platform_id |-> "osx-arm64", archive_type |-> "gztar", binary_name |-> "texlab"],
       [id |-> "texlab", url |-> texlab_releases \o "/texlab-x86_64-windows.zip",
        platform_id |-> "win-x64", archive_type |-> "zip", binary_name |-> "texlab.exe"] >>

runtime_dependencies ==
    << [id |-> "texlab", url |-> texlab_releases \o "/texlab-x86_64-linux.tar.gz",
        platform_id |-> "linux-x64", archive_type |-> "gztar", binary_name |-> "texlab"],
       [id |-> "texlab", url |-> texlab_releases \o "/texlab-aarch64-linux.tar.gz",
        platform_id |-> "linux-arm64", archive_type |-> "gztar", binary_name |-> "texlab"],
       [id |-> "texlab", url |-> texlab_releases \o "/texlab-x86_64-macos.tar.gz",
        platform_id |-> "osx-x64", archive_type |-> "gztar", binary_name |-> "texlab"],
       [id |-> "texlab", url |-> texlab_releases \o "/texlab-aarch64-macos.tar.gz",
        platform_id |-> "osx-arm64", archive_type |-> "gztar", binary_name |-> "texlab"],
       [id |-> "texlab", url |-> texlab_releases \o "/texlab-x86_64-windows.zip",
        platform_id |-> "win-x64", archive_type |-> "zip", binary_name |-> "texlab.exe"] >>

\* The platform identifiers a host can report: the five the binding supports and
\* two it does not.
HostPlatforms ==
    {"linux-x64", "linux-arm64", "osx-x64", "osx-arm64", "win-x64", "win-arm64", "linux-x86"}

\* self._ls_resources_dir
ls_resources_dir == "ls_resources_dir"

\* deps.get_single_dep_for_current_platform(): the descriptors that match the host.
MatchingDeps(deps, plat) == {i \in 1..Len(deps) : deps[i].platform_id = plat}

\* deps.binary_path(dir): the directory joined with the selected binary's name.
binary_path(dir, dep) == <<dir, dep.binary_name>>

\* the existence check before the install is lost: every call installs
NeedsInstall_Always(exists) == TRUE

\* line 76: `if not os.path.exists(texlab_executable_path)` guards the install.
NeedsInstall(exists) == ~exists

\* the check after the install is lost
VerifyFails_Never(exists) == FALSE

\* line 81: `if not os.path.exists(texlab_executable_path): raise FileNotFoundError`.
VerifyFails(exists) == ~exists

\* a chmod that leaves the file without the executable bits (0o644)
ChmodMode_NotExecutable == 6 * 64 + 4 * 8 + 4

\* line 83: os.chmod(texlab_executable_path, 0o755)
ChmodMode == 7 * 64 + 5 * 8 + 5

\* Permission bits an archive member can carry after extraction (0o644, 0o755).
ExtractedModes == {6 * 64 + 4 * 8 + 4, 7 * 64 + 5 * 8 + 5}

BetweenCalls == dpc \in {"idle", "returned", "raised"}

\* lines 69-75, no descriptor for the host: get_single_dep_for_current_platform raises.
SelectDependencyFails ==
    /\ BetweenCalls /\ state = "Created" /\ calls < MaxCalls
    /\ MatchingDeps(runtime_dependencies, platform) = {}
    /\ calls' = calls + 1
    /\ dependency' = NoDependency
    /\ depTrace' = <<"select">>
    /\ ret' = NoPath
    /\ depError' = "UnsupportedPlatform"
    /\ dpc' = "raised"
    /\ UNCHANGED <<platform, debug, fsExists, fsMode, installs, sessVars, ignVars>>

\* lines 69-75: the descriptor is selected and the target path computed.
SelectDependency ==
    /\ BetweenCalls /\ state = "Created" /\ calls < MaxCalls
    /\ \E i \in MatchingDeps(runtime_dependencies, platform) :
          dependency' = runtime_dependencies[i]
    /\ calls' = calls + 1
    /\ depTrace' = <<"select">>
    /\ ret' = NoPath
    /\ depError' = NoError
    /\ dpc' = "check_exists"
    /\ UNCHANGED <<platform, debug, fsExists, fsMode, installs, sessVars, ignVars>>

\* lines 76-80, the binary is there: nothing is downloaded.
SkipInstall ==
    /\ dpc = "check_exists"
    /\ ~NeedsInstall(fsExists)
    /\ depTrace' = depTrace \o <<IF fsExists THEN "exists_true" ELSE "exists_false">>
    /\ dpc' = "verify"
    /\ UNCHANGED <<platform, debug, fsExists, fsMode, dependency, ret, depError, installs, calls,
                   sessVars, ignVars>>

\* lines 76-80, deps.install(texlab_ls_dir): download and extraction either put the
\* binary at the target path or do not.
Install ==
    /\ dpc = "check_exists"
    /\ NeedsInstall(fsExists)
    /\ \E ok \in BOOLEAN, m \in ExtractedModes :
          /\ fsExists' = (fsExists \/ ok)
          /\ fsMode' = IF ok THEN m ELSE fsMode
    /\ installs' = installs + 1
    /\ depTrace' = depTrace \o <<IF fsExists THEN "exists_true" ELSE "exists_false", "install">>
    /\ dpc' = "verify"
    /\ UNCHANGED <<platform, debug, dependency, ret, depError, calls, sessVars, ignVars>>

\* lines 81-82: the binary is still missing.
VerifyRaises ==
    /\ dpc = "verify"
    /\ VerifyFails(fsExists)
    /\ depTrace' = depTrace \o <<IF fsExists THEN "exists_true" ELSE "exists_false">>
    /\ depError' = "FileNotFoundError"
    /\ dpc' = "raised"
    /\ UNCHANGED <<platform, debug, fsExists, fsMode, dependency, ret, installs, calls,
                   sessVars, ignVars>>

\* lines 81-82: the check passes.
VerifyPasses ==
    /\ dpc = "verify"
    /\ ~VerifyFails(fsExists)
    /\ depTrace' = depTrace \o <<IF fsExists THEN "exists_true" ELSE "exists_false">>
    /\ dpc' = "chmod"
    /\ UNCHANGED <<platform, debug, fsExists, fsMode, dependency, ret, depError, installs, calls,
                   sessVars, ignVars>>

\* lines 83-84: os.chmod, then return the path. os.chmod of a missing file raises.
ChmodAndReturn ==
    /\ dpc = "chmod"
    /\ depTrace' = depTrace \o <<IF fsExists THEN "chmod" ELSE "chmod_missing">>
    /\ IF fsExists
          THEN /\ fsMode' = ChmodMode
               /\ ret' = binary_path(ls_resources_dir, dependency)
               /\ dpc' = "returned"
               /\ UNCHANGED depError
          ELSE /\ depError' = "FileNotFoundError"
               /\ dpc' = "raised"
               /\ UNCHANGED <<fsMode, ret>>
    /\ UNCHANGED <<platform, debug, fsExists, dependency, installs, calls, sessVars, ignVars>>

\* The environment removes the binary between two calls.
EnvRemoveBinary ==
    /\ BetweenCalls /\ state = "Created" /\ calls < MaxCalls
    /\ fsExists
    /\ fsExists' = FALSE
    /\ fsMode' = 0
    /\ UNCHANGED <<platform, debug, dpc, dependency, depTrace, ret, depError, installs, calls,
                   sessVars, ignVars>>

(***************************************************************************)
(* Messages on the wire. Every message is a record of the same shape:     *)
(* kind in {"request", "response", "error", "notification"}, id (0 for a  *)
(* notification), method ("" for a response) and body.                    *)
(***************************************************************************)
Msg(k, i, m, b) == [kind |-> k, id |-> i, method |-> m, body |-> b]

InitializeId == 1
\* ids of the requests the subprocess sends are kept apart from the client's
ServerId(n) == 100 + n
SymbolId(n) == 1 + n

RequiredCapabilities == {"textDocumentSync", "completionProvider", "definitionProvider"}

\* What the subprocess can answer to initialize: a result with any subset of the
\* capability keys, or a result without the "capabilities" key.
InitializeResults ==
    {[received |-> TRUE, hasCapabilities |-> TRUE, capabilities |-> c] :
        c \in SUBSET RequiredCapabilities}
    \cup {[received |-> TRUE, hasCapabilities |-> FALSE, capabilities |-> {}]}

\* Methods the subprocess may use for the requests and notifications it sends.
ServerRequestMethods == {"client/registerCapability", "workspace/configuration"}
ServerNotificationMethods ==
    {"window/logMessage", "$/progress", "textDocument/publishDiagnostics", "telemetry/event"}

(***************************************************************************)
(* Texlab._start_server, statement by statement.                          *)
(***************************************************************************)
\* the initialized notification is sent before the handshake request
StartServerProgram_InitializedFirst ==
    << [op |-> "on_request", arg |-> "client/registerCapability"],
       [op |-> "on_notification", arg |-> "window/logMessage"],
       [op |-> "on_notification", arg |-> "$/progress"],
       [op |-> "on_notification", arg |-> "textDocument/publishDiagnostics"],
       [op |-> "start", arg |-> ""],
       [op |-> "notify_initialized", arg |-> ""],
       [op |-> "send_initialize", arg |-> ""],
       [op |-> "assert_capability", arg |-> "textDocumentSync"],
       [op |-> "assert_capability", arg |-> "completionProvider"],
       [op |-> "assert_capability", arg |-> "definitionProvider"] >>

\* the request handler is registered only after the subprocess is started
StartServerProgram_RequestHandlerLate ==
    << [op |-> "on_notification", arg |-> "window/logMessage"],
       [op |-> "on_notification", arg |-> "$/progress"],
       [op |-> "on_notification", arg |-> "textDocument/publishDiagnostics"],
       [op |-> "start", arg |-> ""],
       [op |-> "on_request", arg |-> "client/registerCapability"],
       [op |-> "send_initialize", arg |-> ""],
       [op |-> "assert_capability", arg |-> "textDocumentSync"],
       [op |-> "assert_capability", arg |-> "completionProvider"],
       [op |-> "assert_capability", arg |-> "definitionProvider"],
       [op |-> "notify_initialized", arg |-> ""] >>

\* the diagnostics handler is registered only after the subprocess is started
StartServerProgram_DiagnosticsLate ==
    << [op |-> "on_request", arg |-> "client/registerCapability"],
       [op |-> "on_notification", arg |-> "window/logMessage"],
       [op |-> "on_notification", arg |-> "$/progress"],
       [op |-> "start", arg |-> ""],
       [op |-> "on_notification", arg |-> "textDocument/publishDiagnostics"],
       [op |-> "send_initialize", arg |-> ""],
       [op |-> "assert_capability", arg |-> "textDocumentSync"],
       [op |-> "assert_capability", arg |-> "completionProvider"],
       [op |-> "assert_capability", arg |-> "definitionProvider"],
       [op |-> "notify_initialized", arg |-> ""] >>

StartServerProgram ==
    << [op |-> "on_request", arg |-> "client/registerCapability"],            \* line 170
       [op |-> "on_notification", arg |-> "window/logMessage"],               \* line 171
       [op |-> "on_notification", arg |-> "$/progress"],                      \* line 172
       [op |-> "on_notification", arg |-> "textDocument/publishDiagnostics"], \* line 173
       [op |-> "start", arg |-> ""],                                          \* line 176
       [op |-> "send_initialize", arg |-> ""],                                \* line 180
       [op |-> "assert_capability", arg |-> "textDocumentSync"],              \* line 184
       [op |-> "assert_capability", arg |-> "completionProvider"],            \* line 185
       [op |-> "assert_capability", arg |-> "definitionProvider"],            \* line 186
       [op |-> "notify_initialized", arg |-> ""] >>                           \* line 188

Returned == Len(StartServerProgram) + 1
Raised == Len(StartServerProgram) + 2

Running == pc \in 1..Len(StartServerProgram) /\ ~waiting
Stmt == StartServerProgram[pc]

\* The value a registered handler returns: register_capability_handler returns None.
register_capability_handler == "null"

\* start(): the session leaves Created and _start_server is entered. The launch
\* command is the path dependency resolution returned.
Start ==
    /\ state = "Created"
    /\ dpc = "returned"
    /\ state' = "Starting"
    /\ pc' = 1
    /\ UNCHANGED <<depVars, waiting, error, reqHandlers, notifHandlers, procStarted, outbox, inbox,
                   initResponse, srvSent, symRequests, symPending, symResult, ignVars>>

\* self.server.on_request(method, handler)
RegisterRequestHandler ==
    /\ Running /\ Stmt.op = "on_request"
    /\ reqHandlers' = reqHandlers \cup {Stmt.arg}
    /\ pc' = pc + 1
    /\ UNCHANGED <<depVars, state, waiting, error, notifHandlers, procStarted, outbox, inbox,
                   initResponse, srvSent, symRequests, symPending, symResult, ignVars>>

\* self.server.on_notification(method, handler)
RegisterNotificationHandler ==
    /\ Running /\ Stmt.op = "on_notification"
    /\ notifHandlers' = notifHandlers \cup {Stmt.arg}
    /\ pc' = pc + 1
    /\ UNCHANGED <<depVars, state, waiting, error, reqHandlers, procStarted, outbox, inbox,
                   initResponse, srvSent, symRequests, symPending, symResult, ignVars>>

\* self.server.start(): the subprocess is spawned from the launch command.
ServerStart ==
    /\ Running /\ Stmt.op = "start"
    /\ fsExists
    /\ procStarted' = TRUE
    /\ pc' = pc + 1
    /\ UNCHANGED <<depVars, state, waiting, error, reqHandlers, notifHandlers, outbox, inbox,
                   initResponse, srvSent, symRequests, symPending, symResult, ignVars>>

\* self.server.start() when the executable is gone: the spawn fails.
ServerStartFails ==
    /\ Running /\ Stmt.op = "start"
    /\ ~fsExists
    /\ error' = "ServerLaunchError"
    /\ pc' = Raised
    /\ UNCHANGED <<depVars, state, waiting, reqHandlers, notifHandlers, procStarted, outbox, inbox,
                   initResponse, srvSent, symRequests, symPending, symResult, ignVars>>

\* self.server.send.initialize(params): the request is written and the caller
\* suspends until the response arrives.
SendInitialize ==
    /\ Running /\ Stmt.op = "send_initialize"
    /\ outbox' = Append(outbox, Msg("request", InitializeId, "initialize", "params"))
    /\ waiting' = TRUE
    /\ UNCHANGED <<depVars, state, pc, error, reqHandlers, notifHandlers, procStarted, inbox,
                   initResponse, srvSent, symRequests, symPending, symResult, ignVars>>

\* `assert key in init_response["capabilities"]`, which is
\* `if __debug__: if not (...): raise AssertionError`: the subscript raises KeyError
\* when the result has no "capabilities".
AssertOutcome(dbg, resp, key) ==
    IF ~dbg THEN "pass"
    ELSE IF ~resp.hasCapabilities THEN "KeyError"
    ELSE IF key \in resp.capabilities THEN "pass"
    ELSE "AssertionError"

AssertPasses ==
    /\ Running /\ Stmt.op = "assert_capability"
    /\ AssertOutcome(debug, initResponse, Stmt.arg) = "pass"
    /\ pc' = pc + 1
    /\ UNCHANGED <<depVars, state, waiting, error, reqHandlers, notifHandlers, procStarted, outbox,
                   inbox, initResponse, srvSent, symRequests, symPending, symResult, ignVars>>

AssertRaises ==
    /\ Running /\ Stmt.op = "assert_capability"
    /\ AssertOutcome(debug, initResponse, Stmt.arg) # "pass"
    /\ error' = AssertOutcome(debug, initResponse, Stmt.arg)
    /\ pc' = Raised
    /\ UNCHANGED <<depVars, state, waiting, reqHandlers, notifHandlers, procStarted, outbox,
                   inbox, initResponse, srvSent, symRequests, symPending, symResult, ignVars>>

\* self.server.notify.initialized({}): fire and forget.
NotifyInitialized ==
    /\ Running /\ Stmt.op = "notify_initialized"
    /\ outbox' = Append(outbox, Msg("notification", 0, "initialized", "params"))
    /\ pc' = pc + 1
    /\ UNCHANGED <<depVars, state, waiting, error, reqHandlers, notifHandlers, procStarted, inbox,
                   initResponse, srvSent, symRequests, symPending, symResult, ignVars>>

\* _start_server returned: the session is Initialized.
StartReturns ==
    /\ pc = Returned /\ state = "Starting"
    /\ state' = "Initialized"
    /\ UNCHANGED <<depVars, pc, waiting, error, reqHandlers, notifHandlers, procStarted, outbox,
                   inbox, initResponse, srvSent, symRequests, symPending, symResult, ignVars>>

(***************************************************************************)
(* The subprocess: it answers initialize and documentSymbol, and may send  *)
(* requests and notifications of its own at any moment once it runs.       *)
(***************************************************************************)
InInbox(i) == \E k \in 1..Len(inbox) : inbox[k].kind = "response" /\ inbox[k].id = i
InOutbox(k, m) == \E j \in 1..Len(outbox) : outbox[j].kind = k /\ outbox[j].method = m

ServerRespondInitialize ==
    /\ procStarted
    /\ InOutbox("request", "initialize")
    /\ ~initResponse.received /\ ~InInbox(InitializeId)
    /\ \E r \in InitializeResults :
          inbox' = Append(inbox, Msg("response", InitializeId, "", r))
    /\ UNCHANGED <<depVars, state, pc, waiting, error, reqHandlers, notifHandlers, procStarted,
                   outbox, initResponse, srvSent, symRequests, symPending, symResult, ignVars>>

ServerSendRequest ==
    /\ procStarted /\ srvSent < MaxServerMsgs
    /\ \E m \in ServerRequestMethods :
          inbox' = Append(inbox, Msg("request", ServerId(srvSent + 1), m, "params"))
    /\ srvSent' = srvSent + 1
    /\ UNCHANGED <<depVars, state, pc, waiting, error, reqHandlers, notifHandlers, procStarted,
                   outbox, initResponse, symRequests, symPending, symResult, ignVars>>

ServerSendNotification ==
    /\ procStarted /\ srvSent < MaxServerMsgs
    /\ \E m \in ServerNotificationMethods :
          inbox' = Append(inbox, Msg("notification", 0, m, "params"))
    /\ srvSent' = srvSent + 1
    /\ UNCHANGED <<depVars, state, pc, waiting, error, reqHandlers, notifHandlers, procStarted,
                   outbox, initResponse, symRequests, symPending, symResult, ignVars>>

(***************************************************************************)
(* Document symbols. A hierarchical response is a forest of DocumentSymbol *)
(* nodes with nested children; a flat response is a list of symbols.       *)
(***************************************************************************)
SymbolNames == {"a", "b"}

RECURSIVE Forests(_)
\* every forest with exactly n nodes
Forests(n) ==
    IF n = 0 THEN {<<>>}
    ELSE UNION { { <<[name |-> x, children |-> c]>> \o rest :
                     x \in SymbolNames, c \in Forests(k - 1), rest \in Forests(n - k) } :
                 k \in 1..n }

FlatLists(n) == [1..n -> {[name |-> x, children |-> <<>>] : x \in SymbolNames}]

SymbolResponses ==
    UNION { {[shape |-> "hierarchical", items |-> f] : f \in Forests(n)} : n \in 0..MaxSymbols }
    \cup UNION { {[shape |-> "flat", items |-> f] : f \in FlatLists(n)} : n \in 1..MaxSymbols }

RECURSIVE FlattenForest_ChildrenFirst(_)
\* the children are emitted before their parent
FlattenForest_ChildrenFirst(f) ==
    IF f = <<>> THEN <<>>
    ELSE FlattenForest_ChildrenFirst(Head(f).children) \o <<Head(f)>>
         \o FlattenForest_ChildrenFirst(Tail(f))

RECURSIVE FlattenForest(_)
\* every symbol of the forest, each parent before its children, siblings in order
FlattenForest(f) ==
    IF f = <<>> THEN <<>>
    ELSE <<Head(f)>> \o FlattenForest(Head(f).children) \o FlattenForest(Tail(f))

\* get_all_symbols_and_roots(): one ordered sequence of all symbols and the roots.
Normalize(resp) ==
    [done |-> TRUE,
     all |-> IF resp.shape = "flat" THEN resp.items ELSE FlattenForest(resp.items),
     roots |-> resp.items]

\* request_document_symbols(path): valid in Initialized only; sends
\* textDocument/documentSymbol and suspends until the response arrives.
RequestDocumentSymbols ==
    /\ state = "Initialized"
    /\ ~symPending /\ symRequests < MaxSymbolRequests
    /\ outbox' = Append(outbox, Msg("request", SymbolId(symRequests + 1),
                                    "textDocument/documentSymbol", "params"))
    /\ symRequests' = symRequests + 1
    /\ symPending' = TRUE
    /\ symResult' = NoResult
    /\ UNCHANGED <<depVars, state, pc, waiting, error, reqHandlers, notifHandlers, procStarted,
                   inbox, initResponse, srvSent, ignVars>>

ServerRespondSymbols ==
    /\ procStarted
    /\ symPending /\ ~InInbox(SymbolId(symRequests))
    /\ \E r \in SymbolResponses :
          inbox' = Append(inbox, Msg("response", SymbolId(symRequests), "", r))
    /\ UNCHANGED <<depVars, state, pc, waiting, error, reqHandlers, notifHandlers, procStarted,
                   outbox, initResponse, srvSent, symRequests, symPending, symResult, ignVars>>

(***************************************************************************)
(* The dispatcher's single reader task: it takes the messages in the order *)
(* they arrived and classifies each by id and method.                      *)
(***************************************************************************)
Reading == procStarted /\ inbox # <<>>

\* the response to initialize resolves the pending slot: send.initialize returns
ReaderInitializeResponse ==
    /\ Reading /\ Head(inbox).kind = "response" /\ Head(inbox).id = InitializeId
    /\ initResponse' = Head(inbox).body
    /\ waiting' = FALSE
    /\ pc' = pc + 1
    /\ inbox' = Tail(inbox)
    /\ UNCHANGED <<depVars, state, error, reqHandlers, notifHandlers, procStarted, outbox,
                   srvSent, symRequests, symPending, symResult, ignVars>>

\* the response to textDocument/documentSymbol resolves its slot and is normalised
ReaderSymbolsResponse ==
    /\ Reading /\ Head(inbox).kind = "response" /\ Head(inbox).id # InitializeId
    /\ symResult' = Normalize(Head(inbox).body)
    /\ symPending' = FALSE
    /\ inbox' = Tail(inbox)
    /\ UNCHANGED <<depVars, state, pc, waiting, error, reqHandlers, notifHandlers, procStarted,
                   outbox, initResponse, srvSent, symRequests, ignVars>>

\* a request whose method has a handler: the handler's return value is sent back
ReaderRequestHandled ==
    /\ Reading /\ Head(inbox).kind = "request"
    /\ Head(inbox).method \in reqHandlers
    /\ outbox' = Append(outbox, Msg("response", Head(inbox).id, "", register_capability_handler))
    /\ inbox' = Tail(inbox)
    /\ UNCHANGED <<depVars, state, pc, waiting, error, reqHandlers, notifHandlers, procStarted,
                   initResponse, srvSent, symRequests, symPending, symResult, ignVars>>

\* a request whose method has no handler: an error object is sent back
ReaderRequestUnhandled ==
    /\ Reading /\ Head(inbox).kind = "request"
    /\ Head(inbox).method \notin reqHandlers
    /\ outbox' = Append(outbox, Msg("error", Head(inbox).id, "", "MethodNotFound"))
    /\ inbox' = Tail(inbox)
    /\ UNCHANGED <<depVars, state, pc, waiting, error, reqHandlers, notifHandlers, procStarted,
                   initResponse, srvSent, symRequests, symPending, symResult, ignVars>>

\* a notification with a handler: window_log_message logs, do_nothing returns
ReaderNotificationHandled ==
    /\ Reading /\ Head(inbox).kind = "notification"
    /\ Head(inbox).method \in notifHandlers
    /\ inbox' = Tail(inbox)
    /\ UNCHANGED <<depVars, state, pc, waiting, error, reqHandlers, notifHandlers, procStarted,
                   outbox, initResponse, srvSent, symRequests, symPending, symResult, ignVars>>

\* a notification without a handler is dropped silently
ReaderNotificationDropped ==
    /\ Reading /\ Head(inbox).kind = "notification"
    /\ Head(inbox).method \notin notifHandlers
    /\ inbox' = Tail(inbox)
    /\ UNCHANGED <<depVars, state, pc, waiting, error, reqHandlers, notifHandlers, procStarted,
                   outbox, initResponse, srvSent, symRequests, symPending, symResult, ignVars>>

(***************************************************************************)
(* Texlab.is_ignored_dirname.                                              *)
(***************************************************************************)
\* line 107: the list the override adds
TexlabIgnoredDirnames == <<"_minted", "auto", "pythontex-files-">>

\* a prefix test in place of the equality
InList_Prefix(x, list) ==
    \E i \in 1..Len(list) :
        Len(x) >= Len(list[i]) /\ SubSeq(x, 1, Len(list[i])) = list[i]

\* Python's `x in list`: equality with some element
InList(x, list) == \E i \in 1..Len(list) : list[i] = x

\* line 107: super().is_ignored_dirname(dirname) or dirname in [...]
is_ignored_dirname(base, d) == base \/ InList(d, TexlabIgnoredDirnames)

\* directory names the workspace scanner may meet
DirNames == {"_minted", "auto", "pythontex-files-", "pythontex-files-main", "auto2", ".git", "src"}

IsIgnoredDirname ==
    /\ \E d \in DirNames :
          /\ dirname' = d
          /\ ignored' = is_ignored_dirname(d \in baseIgnored, d)
    /\ UNCHANGED <<depVars, sessVars, baseIgnored>>

(***************************************************************************)
(* Specifications.                                                         *)
(***************************************************************************)
InitSession ==
    /\ state = "Created" /\ pc = 0 /\ waiting = FALSE /\ error = NoError
    /\ reqHandlers = {} /\ notifHandlers = {}
    /\ procStarted = FALSE /\ outbox = <<>> /\ inbox = <<>>
    /\ initResponse = NoResponse /\ srvSent = 0
    /\ symRequests = 0 /\ symPending = FALSE /\ symResult = NoResult

InitDeps ==
    /\ dpc = "idle" /\ dependency = NoDependency /\ depTrace = <<>>
    /\ ret = NoPath /\ depError = NoError /\ installs = 0 /\ calls = 0

InitFiles ==
    \E f \in {<<FALSE, 0>>} \cup {<<TRUE, m>> : m \in ExtractedModes} :
        fsExists = f[1] /\ fsMode = f[2]

InitIgnoreUnused == baseIgnored = {} /\ dirname = NoDirname /\ ignored = FALSE

ResolveStep ==
    \/ SelectDependencyFails \/ SelectDependency \/ SkipInstall \/ Install
    \/ VerifyRaises \/ VerifyPasses \/ ChmodAndReturn \/ EnvRemoveBinary

(* Dependency resolution on every host, up to the start of the session.    *)
InitDependencies ==
    /\ platform \in HostPlatforms
    /\ debug \in BOOLEAN
    /\ InitFiles /\ InitDeps /\ InitSession /\ InitIgnoreUnused

NextDependencies == ResolveStep \/ Start

SpecDeps == InitDependencies /\ [][NextDependencies]_vars

(* The session, from the state its constructor leaves: the launch command   *)
(* holds the path a first resolution returned, on a host with a descriptor,*)
(* either having found the binary or having installed it. The answer to a  *)
(* textDocument/documentSymbol request is followed in SpecSymbols.         *)
SessionHosts == {"linux-x64"}

ResolvedTraces ==
    { <<"select", "exists_true", "exists_true", "chmod">>,
      <<"select", "exists_false", "install", "exists_true", "chmod">> }

Init ==
    /\ platform \in SessionHosts
    /\ debug \in BOOLEAN
    /\ fsExists = TRUE /\ fsMode = ChmodMode
    /\ dpc = "returned"
    /\ \E i \in MatchingDeps(runtime_dependencies, platform) :
          /\ dependency = runtime_dependencies[i]
          /\ ret = binary_path(ls_resources_dir, runtime_dependencies[i])
    /\ depTrace \in ResolvedTraces
    /\ installs = (IF Occurs("install", depTrace) THEN 1 ELSE 0)
    /\ depError = NoError /\ calls = 1
    /\ InitSession /\ InitIgnoreUnused

Next ==
    \/ EnvRemoveBinary
    \/ Start \/ RegisterRequestHandler \/ RegisterNotificationHandler
    \/ ServerStart \/ ServerStartFails \/ SendInitialize
    \/ AssertPasses \/ AssertRaises \/ NotifyInitialized \/ StartReturns
    \/ ServerRespondInitialize \/ ServerSendRequest \/ ServerSendNotification
    \/ RequestDocumentSymbols
    \/ ReaderInitializeResponse
    \/ ReaderRequestHandled \/ ReaderRequestUnhandled
    \/ ReaderNotificationHandled \/ ReaderNotificationDropped

Spec == Init /\ [][Next]_vars

\* The reader task runs for as long as the subprocess does: a message that has
\* arrived is eventually taken.
ReaderStep ==
    \/ ReaderInitializeResponse
    \/ ReaderRequestHandled \/ ReaderRequestUnhandled
    \/ ReaderNotificationHandled \/ ReaderNotificationDropped

FairSpec == Spec /\ WF_vars(ReaderStep)

(* Document symbols on an initialized session: the state Spec reaches on   *)
(* linux-x64 when the binary was present, the subprocess reports every     *)
(* required capability and sends nothing of its own.                       *)
InitSymbols ==
    /\ platform = "linux-x64" /\ debug = TRUE /\ fsExists = TRUE /\ fsMode = ChmodMode
    /\ dpc = "returned" /\ dependency = runtime_dependencies[1]
    /\ depTrace = <<"select", "exists_true", "exists_true", "chmod">>
    /\ ret = binary_path(ls_resources_dir, runtime_dependencies[1])
    /\ depError = NoError /\ installs = 0 /\ calls = 1
    /\ state = "Initialized" /\ pc = Returned /\ waiting = FALSE /\ error = NoError
    /\ reqHandlers = {"client/registerCapability"}
    /\ notifHandlers = {"window/logMessage", "$/progress", "textDocument/publishDiagnostics"}
    /\ procStarted = TRUE
    /\ outbox = << Msg("request", InitializeId, "initialize", "params"),
                   Msg("notification", 0, "initialized", "params") >>
    /\ inbox = <<>>
    /\ initResponse = [received |-> TRUE, hasCapabilities |-> TRUE,
                       capabilities |-> RequiredCapabilities]
    /\ srvSent = 0 /\ symRequests = 0 /\ symPending = FALSE /\ symResult = NoResult
    /\ InitIgnoreUnused

NextSymbols == RequestDocumentSymbols \/ ServerRespondSymbols \/ ReaderSymbolsResponse

SpecSymbols == InitSymbols /\ [][NextSymbols]_vars

(* is_ignored_dirname is a pure function of the name and of the base       *)
(* predicate: the base predicate is any set of names, the action applies   *)
(* the override.                                                           *)
InitIgnore ==
    /\ platform = "linux-x64" /\ debug = TRUE /\ fsExists = FALSE /\ fsMode = 0
    /\ InitDeps /\ InitSession
    /\ baseIgnored \in SUBSET DirNames /\ dirname = NoDirname /\ ignored = FALSE

NextIgnore == IsIgnoredDirname

SpecIgnore == InitIgnore /\ [][NextIgnore]_vars


(***************************************************************************)
(* Properties.                                                             *)
(***************************************************************************)

RECURSIVE IsSubseq(_, _)
\* a is b with some elements left out, the order kept
IsSubseq(a, b) ==
    IF a = <<>> THEN TRUE
    ELSE IF b = <<>> THEN FALSE
    ELSE IF Head(a) = Head(b) THEN IsSubseq(Tail(a), Tail(b))
    ELSE IsSubseq(a, Tail(b))

RECURSIVE CountNodes(_)
CountNodes(f) ==
    IF f = <<>> THEN 0 ELSE 1 + CountNodes(Head(f).children) + CountNodes(Tail(f))

SupportedPlatforms == {"linux-x64", "linux-arm64", "osx-x64", "osx-arm64", "win-x64"}

InitializedAt(i) == outbox[i].kind = "notification" /\ outbox[i].method = "initialized"
InitializeAt(i) == outbox[i].kind = "request" /\ outbox[i].method = "initialize"

\* the initialize response arrived with a "capabilities" object that lacks a required key
MissingCapability ==
    /\ initResponse.received /\ initResponse.hasCapabilities
    /\ ~(RequiredCapabilities \subseteq initResponse.capabilities)

\* C1 (as claimed): when the initialize response lacks one of textDocumentSync,
\* completionProvider, definitionProvider, _start_server fails with
\* IncompatibleServerError, the initialized notification is never sent and the
\* session never reaches Initialized.
C1_MissingCapabilityIsIncompatibleServerError ==
    MissingCapability =>
        /\ pc # Returned
        /\ (pc = Raised => error = "IncompatibleServerError")
        /\ ~InOutbox("notification", "initialized")
        /\ state # "Initialized"

C3_ResolutionIdempotent ==
    /\ [][fsExists => installs' = installs]_vars
    /\ [](dpc = "returned" =>
            \E i \in MatchingDeps(runtime_dependencies, platform) :
                ret = <<ls_resources_dir, runtime_dependencies[i].binary_name>>)
    /\ [](installs <= calls)

\* first call installed, second call found the binary and did nothing but chmod
C3_Witness ==
    /\ calls = 2 /\ installs = 1 /\ dpc = "returned" /\ fsExists
    /\ depTrace = <<"select", "exists_true", "exists_true", "chmod">>

\* the call ended with the binary absent before and after deps.install
InstallLeftNothing ==
    /\ dpc = "raised"
    /\ Len(depTrace) >= 4
    /\ depTrace[2] = "exists_false" /\ depTrace[3] = "install" /\ depTrace[4] = "exists_false"

\* C4 (as claimed): absent before and after the install, the call fails with
\* DependencyInstallError, returns no path, changes no permission bits, and the
\* session is not started.
C4_FailsWithDependencyInstallError ==
    /\ InstallLeftNothing =>
          /\ depError = "DependencyInstallError"
          /\ ret = NoPath
          /\ ~Occurs("chmod", depTrace) /\ ~Occurs("chmod_missing", depTrace)
          /\ state = "Created" /\ ~procStarted

\* C4 (amended): absent before and after the install, the call raises
\* FileNotFoundError, returns no path, applies no chmod, and the session is not
\* started; a call never gets past the second existence check with the binary absent.
C4_FailsWithFileNotFoundError ==
    /\ InstallLeftNothing =>
          /\ depError = "FileNotFoundError"
          /\ ret = NoPath
          /\ Len(depTrace) = 4
          /\ ~Occurs("chmod", depTrace) /\ ~Occurs("chmod_missing", depTrace)
          /\ state = "Created" /\ ~procStarted /\ pc = 0
    /\ (dpc = "verify" /\ ~fsExists) => (ret = NoPath /\ state = "Created")
    /\ (dpc \in {"chmod", "returned"}) => Occurs("exists_true", depTrace)
    /\ state # "Created" => ret # NoPath

C4_Witness == InstallLeftNothing /\ calls = 1

\* C5: each of the five platform identifiers has exactly one descriptor, a call on
\* one of them selects that descriptor, and a call on any other host raises
\* UnsupportedPlatform having done nothing but the selection: no existence check,
\* no install, no chmod.
C5_OneDescriptorPerPlatform ==
    /\ {runtime_dependencies[i].platform_id : i \in 1..Len(runtime_dependencies)}
          = SupportedPlatforms
    /\ \A p \in SupportedPlatforms : Cardinality(MatchingDeps(runtime_dependencies, p)) = 1
    /\ (dpc \in {"check_exists", "verify", "chmod", "returned"}
          => /\ platform \in SupportedPlatforms
             /\ dependency.platform_id = platform
             /\ dependency \in {runtime_dependencies[i] : i \in 1..Len(runtime_dependencies)})
    /\ (platform \notin SupportedPlatforms /\ calls > 0
          => /\ dpc = "raised" /\ depError = "UnsupportedPlatform"
             /\ depTrace = <<"select">>
             /\ ret = NoPath /\ installs = 0
             /\ state = "Created")

C5_Witness == platform = "win-arm64" /\ calls = 2 /\ depError = "UnsupportedPlatform"

\* C6: the reader answers every client/registerCapability request it takes from
\* the subprocess, in the same step, with a success response carrying the handler's
\* null return value and the request's id; nothing else is written in that step.
C6_RegisterCapabilityAnswered ==
    /\ [][(/\ Reading
           /\ Head(inbox).kind = "request"
           /\ Head(inbox).method = "client/registerCapability"
           /\ Len(inbox') < Len(inbox))
          => outbox' = Append(outbox, Msg("response", Head(inbox).id, "", "null"))]_vars
    /\ [](\A j \in 1..Len(outbox) :
            outbox[j].kind = "error" => outbox[j].body = "MethodNotFound")
    /\ \A n \in 1..MaxServerMsgs :
          (\E k \in 1..Len(inbox) :
              /\ inbox[k].kind = "request" /\ inbox[k].id = ServerId(n)
              /\ inbox[k].method = "client/registerCapability")
          ~> (\E j \in 1..Len(outbox) :
                /\ outbox[j].kind = "response" /\ outbox[j].id = ServerId(n)
                /\ outbox[j].body = "null")

C6_Witness ==
    /\ pc \in 6..Len(StartServerProgram)
    /\ \E j \in 1..Len(outbox) :
          outbox[j].kind = "response" /\ outbox[j].id = ServerId(1) /\ outbox[j].body = "null"

TexlabNotifications == {"window/logMessage", "$/progress", "textDocument/publishDiagnostics"}

HandlersRegistered ==
    /\ "client/registerCapability" \in reqHandlers
    /\ TexlabNotifications \subseteq notifHandlers

\* C7: once the subprocess runs, the four handlers are registered and the registry
\* no longer changes, so every message of these four methods finds its handler;
\* taking a notification of one of the three methods changes neither the session
\* state nor what was written to the subprocess.
C7_HandlersBeforeStart ==
    /\ [](procStarted => HandlersRegistered)
    /\ [](\A k \in 1..Len(inbox) :
            /\ inbox[k].kind = "request" /\ inbox[k].method = "client/registerCapability"
                  => inbox[k].method \in reqHandlers
            /\ inbox[k].kind = "notification" /\ inbox[k].method \in TexlabNotifications
                  => inbox[k].method \in notifHandlers)
    /\ [][procStarted => (reqHandlers' = reqHandlers /\ notifHandlers' = notifHandlers)]_vars
    /\ [][(/\ Reading
           /\ Head(inbox).kind = "notification"
           /\ Head(inbox).method \in TexlabNotifications
           /\ inbox' = Tail(inbox))
          => UNCHANGED <<state, pc, waiting, error, outbox, initResponse>>]_vars

C7_Witness ==
    /\ procStarted /\ pc = 6 /\ ~waiting
    /\ Len(inbox) = 2
    /\ inbox[1].method = "textDocument/publishDiagnostics"
    /\ inbox[2].method = "client/registerCapability"

\* C8 (as claimed): the result of get_all_symbols_and_roots is a non-empty sequence
\* of all symbols, and every root is among them in order.
C8_SymbolsNonEmpty ==
    symResult.done =>
        /\ Len(symResult.all) > 0
        /\ IsSubseq(symResult.roots, symResult.all)

\* what the result must be for the response the reader takes
SymbolsNormalized(resp, res) ==
    /\ res.done
    /\ (Len(res.all) > 0 <=> resp.items # <<>>)
    /\ Len(res.all) = CountNodes(resp.items)
    /\ res.roots = resp.items
    /\ IsSubseq(res.roots, res.all)
    /\ \A i \in 1..Len(res.all) :
          IsSubseq(res.all[i].children, SubSeq(res.all, i + 1, Len(res.all)))
    /\ (res.all # <<>> => res.all[1] = resp.items[1])

\* C8 (amended): the sequence of all symbols is non-empty exactly when the
\* response holds a symbol; it has every symbol of the response once, each parent
\* before its children and siblings in the response's order; the roots are the
\* response's top-level symbols in order, and are a subsequence of all symbols.
C8_SymbolsFlattened ==
    [][(symPending /\ ~symPending') => SymbolsNormalized(Head(inbox).body, symResult')]_vars

\* a root with a child that itself has a child
C8_Witness ==
    /\ symResult.done
    /\ Len(symResult.roots) = 1 /\ Len(symResult.all) = 3
    /\ Len(symResult.roots[1].children) = 1
    /\ Len(symResult.roots[1].children[1].children) = 1

\* C9: a call returns only with the binary present, mode 0o755 and a chmod as its
\* last operation; a chmod is only ever applied while the binary exists.
C9_ReturnedPathIsExecutable ==
    /\ [][(dpc # "returned" /\ dpc' = "returned")
          => /\ ret' # NoPath
             /\ fsExists' /\ fsMode' = 7 * 64 + 5 * 8 + 5
             /\ Last(depTrace') = "chmod"]_vars
    /\ [](dpc = "chmod" => fsExists)
    /\ [](~Occurs("chmod_missing", depTrace))
    /\ [](ret # NoPath => dpc = "returned")

\* fresh install, then chmod
C9_Witness ==
    /\ dpc = "returned"
    /\ depTrace = <<"select", "exists_false", "install", "exists_true", "chmod">>
    /\ fsMode = 7 * 64 + 5 * 8 + 5

\* C10: is_ignored_dirname(d) is true exactly when the base predicate accepts d or
\* d is one of "_minted", "auto", "pythontex-files-": a longer name that only starts
\* with one of them is ignored only when the base predicate ignores it.
C10_IgnoreExtendsBase ==
    dirname # NoDirname =>
        /\ ignored = (dirname \in baseIgnored
                        \/ dirname \in {"_minted", "auto", "pythontex-files-"})
        /\ (dirname \in {"pythontex-files-main", "auto2"} => (ignored <=> dirname \in baseIgnored))
        /\ (dirname \in baseIgnored => ignored)

C10_Witness == dirname = "pythontex-files-main" /\ ~ignored /\ ".git" \in baseIgnored

====
